---------------------------- MODULE Spec2Model ----------------------------
(***************************************************************************)
(* CascadeQ (src/src/cascade-q.ts): a multi-priority task scheduler.       *)
(* One scheduler instance, its tier heaps (src/src/priority-queue.ts),     *)
(* the per-tier running counters, the submitted tasks and the clock.       *)
(* Every public method and every callback (task settlement, continuation   *)
(* of #executeTask after its await, the expiry timer) is one action.       *)
(***************************************************************************)
EXTENDS Integers, Sequences, FiniteSets, TLC

(* ------------------------------ bounds --------------------------------- *)
\* number of add() calls that create a task
MaxTasks == 2
\* last clock reading (Date.now() in clock ticks of the model)
MaxTime == 2
\* number of add() calls in the runs that mix pause, resume and cancel only
MaxTasksResume == 5
MaxTasksExample == 3
\* number of add() calls in the runs with maxConcurrency 1
MaxTasksSerial == 4
\* number of add() calls and largest maxConcurrency in the runs that read quotas
MaxTasksQuota == 4
MaxConcurrencyQuota == 3
\* number of add() calls and last clock reading in the runs with a decay interval
\* of two clock ticks
MaxTasksHeap == 3
MaxTimeHeap == 2
\* number of enqueue() calls and last clock reading in the runs of one PriorityQueue
MaxItemsQueue == 5
MaxTimeQueue == 1
\* number of add() calls and last clock reading in the runs under fairness
MaxTasksLive == 2
MaxTimeLive == 3

(* ----------------------- configuration (options) ----------------------- *)
\* options.baseDecay, options.taskTTL, options.cleanupInterval, in clock ticks of
\* the model
baseDecay == 1
taskTTL == 2
cleanupInterval == 2

DEFAULT_THRESHOLDS == <<0, 10>>

TaskStatus == [Pending |-> "pending", Running |-> "running", Success |-> "success",
               Failed |-> "failed", Cancelled |-> "cancelled"]

VARIABLES
  maxConcurrency,    \* #maxConcurrency (readonly)
  calcConcurrency,   \* #calcConcurrency: <<>> for the default, else constant per-tier quotas
  thresholds,        \* #thresholds: values, ascending
  priorities,        \* the priorities callers pass to add()
  budget,            \* how many tasks callers add and how far the clock runs
  priorityDecayInterval,  \* #priorityDecayInterval (readonly), in clock ticks
  priorityCheckInterval,  \* #priorityCheckInterval (readonly), in clock ticks
  now,               \* Date.now()
  tasks,             \* every TaskItem created so far, by id (1..Len(tasks))
  priorityQueues,    \* #priorityQueues: per tier, the heap array of task ids
  runningCounts,     \* #runningCounts
  isPaused,          \* #isPaused
  isDisposed,        \* #isDisposed
  cleanupTimer,      \* #cleanupTimer: 0 = cleared, else the time the interval is next due
  lastPriorityCheck, \* #lastPriorityCheck
  hung,              \* the thread is inside a loop of #adjustPriorities that never ends
  last,              \* the last call: <<operation, argument, returned value>>
  handlers,          \* EventEmitter.handlers: the events that have a handler registered
  delivered,         \* per task, the events the listeners' callbacks were called with
  dispatched         \* the dispatch decisions of the last call, in order

vars == <<maxConcurrency, calcConcurrency, thresholds, priorities, budget,
          priorityDecayInterval, priorityCheckInterval, now, tasks,
          priorityQueues, runningCounts, isPaused, isDisposed, cleanupTimer,
          lastPriorityCheck, hung, last, handlers, delivered, dispatched>>

config == <<maxConcurrency, calcConcurrency, thresholds, priorities, budget,
            priorityDecayInterval, priorityCheckInterval>>

(* ------------------------------ helpers -------------------------------- *)
Min(a, b) == IF a < b THEN a ELSE b
Max(a, b) == IF a > b THEN a ELSE b

RECURSIVE SumSeq(_)
SumSeq(s) == IF s = <<>> THEN 0 ELSE Head(s) + SumSeq(Tail(s))

RECURSIVE InsertSorted(_, _)
InsertSorted(s, x) ==
  IF s = <<>> THEN <<x>>
  ELSE IF x < Head(s) THEN <<x>> \o s
  ELSE <<Head(s)>> \o InsertSorted(Tail(s), x)

RECURSIVE SortAsc(_)
SortAsc(s) == IF s = <<>> THEN <<>> ELSE InsertSorted(SortAsc(Tail(s)), Head(s))

\* the configured values kept in the order given
NormalizeThresholds_AsConfigured(input) == input

\* #normalizeThresholds: the configured values, sorted ascending (stable)
NormalizeThresholds(input) == SortAsc(input)

\* #initRunningCount
InitRunningCount(th) == [i \in 1..Len(th) |-> 0]

\* the getter with the reduce started at the second counter
RunningTaskCount_SkipsFirstTier(rc) == SumSeq(Tail(rc))

\* get #runningTaskCount
RunningTaskCount(rc) == SumSeq(rc)

\* DEFAULT_DECAY_CURVE
DecayCurve(n) == n

\* #calcEffectivePriority
CalcEffectivePriority(task) ==
  LET n == (now - task.addedAt) \div priorityDecayInterval
  IN task.basePriority - baseDecay * DecayCurve(n)

\* thresholds.findIndex(t => effectivePriority <= t.value), tiers counted from 1, 0 = none
RECURSIVE FindIndexFrom(_, _)
FindIndexFrom(p, i) ==
  IF i > Len(thresholds) THEN 0
  ELSE IF p <= thresholds[i] THEN i
  ELSE FindIndexFrom(p, i + 1)

\* #findTaskQueueIndex
FindTaskQueueIndex(task) ==
  LET index == FindIndexFrom(CalcEffectivePriority(task), 1)
  IN IF index = 0 THEN Len(thresholds) ELSE index

\* #getDefaultPriority
GetDefaultPriority == thresholds[Len(thresholds)] + 1

(* --------------------------- PriorityQueue ----------------------------- *)
\* the comparator given to every PriorityQueue by the constructor
Compare(tk, a, b) ==
  LET d == CalcEffectivePriority(tk[a]) - CalcEffectivePriority(tk[b])
  IN IF d # 0 THEN d ELSE tk[a].addedAt - tk[b].addedAt

Swap(h, i, j) == [h EXCEPT ![i] = h[j], ![j] = h[i]]

\* #bubbleUp that leaves the new item at the end of the array
BubbleUp_LeavesAtEnd(tk, h, index) == h

\* #bubbleUp (heap positions counted from 1: the parent of i is i \div 2)
RECURSIVE BubbleUp(_, _, _)
BubbleUp(tk, h, index) ==
  IF index <= 1 THEN h
  ELSE LET parent == index \div 2
       IN IF Compare(tk, h[index], h[parent]) >= 0 THEN h
          ELSE BubbleUp(tk, Swap(h, parent, index), parent)

\* #sinkDown
RECURSIVE SinkDown(_, _, _)
SinkDown(tk, h, index) ==
  LET length == Len(h)
      left == 2 * index
      right == 2 * index + 1
      s1 == IF left <= length /\ Compare(tk, h[left], h[index]) < 0 THEN left ELSE index
      smallest == IF right <= length /\ Compare(tk, h[right], h[s1]) < 0 THEN right ELSE s1
  IN IF smallest = index THEN h
     ELSE SinkDown(tk, Swap(h, index, smallest), smallest)

\* enqueue
Enqueue(tk, h, item) == BubbleUp(tk, Append(h, item), Len(h) + 1)

\* dequeue: the heap that is left (the item returned is h[1])
Dequeue(tk, h) ==
  LET last_ == h[Len(h)]
      rest == SubSeq(h, 1, Len(h) - 1)
  IN IF Len(rest) > 0 THEN SinkDown(tk, [rest EXCEPT ![1] = last_], 1) ELSE rest

\* the items of a heap in the order repeated dequeue() returns them
RECURSIVE Drain(_, _)
Drain(tk, h) == IF h = <<>> THEN <<>> ELSE <<h[1]>> \o Drain(tk, Dequeue(tk, h))

\* items.forEach(item => queue.enqueue(item))
RECURSIVE EnqueueAll(_, _, _)
EnqueueAll(tk, h, items) ==
  IF items = <<>> THEN h ELSE EnqueueAll(tk, Enqueue(tk, h, Head(items)), Tail(items))

(* ------------------------ concurrency allocation ----------------------- *)
\* #getState(false): what calcConcurrency is given
GetState(q, rc) ==
  [running |-> RunningTaskCount(rc),
   pending |-> SumSeq([i \in 1..Len(q) |-> Len(q[i])]),
   max     |-> maxConcurrency,
   queues  |-> [i \in 1..Len(q) |-> [running |-> rc[i], pending |-> Len(q[i])]]]

\* DEFAULT_CALC_CONCURRENCY; index counts tiers from 1, so the weight
\* (totalLevels - index0) / totalLevels has numerator totalLevels - index + 1
DEFAULT_CALC_CONCURRENCY(index, state) ==
  LET totalLevels == Len(state.queues)
      totalPending == state.pending
      levelPending == state.queues[index].pending
      levelShare == (state.max * (totalLevels - index + 1) * levelPending)
                      \div (totalLevels * totalPending)
  IN IF totalPending = 0 THEN 0
     ELSE Max(Min(levelShare, levelPending), 1)

\* ThresholdItem.getConcurrency: this.#calcConcurrency(index, this.#getState(false))
GetConcurrency(index, q, rc) ==
  IF calcConcurrency = <<>>
  THEN DEFAULT_CALC_CONCURRENCY(index, GetState(q, rc))
  ELSE calcConcurrency[index]

(* ------------------------------ core logic ----------------------------- *)
Emit(tk, t, event) == [tk EXCEPT ![t].events = Append(@, event)]

\* a task that reached a terminal status is in no heap and in no running
\* #executeTask any more: the scheduler never reads its fields again, the handle
\* (#createTaskHandle) reads its status only
Forget(tk, t) ==
  [tk EXCEPT ![t].basePriority = 0, ![t].addedAt = 0, ![t].queueIndex = 0, ![t].from = 0]

\* a cancellation that also rejects the task's handle
MarkCancelled_RejectsHandle(tk, t) ==
  Forget(Emit([tk EXCEPT ![t].status = TaskStatus.Cancelled, ![t].handle = "rejected"],
              t, "cancel"), t)

\* item.status = TaskStatus.Cancelled; this.emit('cancel', item)
MarkCancelled(tk, t) ==
  Forget(Emit([tk EXCEPT ![t].status = TaskStatus.Cancelled], t, "cancel"), t)

\* #enqueueTask that also puts the task into the first tier's heap
EnqueueTask_AlsoFirstTier(tk, q, t) ==
  LET queueIndex == FindIndexFrom(CalcEffectivePriority(tk[t]), 1)
      target == IF queueIndex = 0 THEN Len(q) ELSE queueIndex
  IN [i \in 1..Len(q) |-> IF i = target \/ i = 1 THEN Enqueue(tk, q[i], t) ELSE q[i]]

\* #enqueueTask that puts every task into the first tier's heap
EnqueueTask_AlwaysFirstTier(tk, q, t) == [q EXCEPT ![1] = Enqueue(tk, @, t)]

\* #enqueueTask
EnqueueTask(tk, q, t) ==
  LET queueIndex == FindIndexFrom(CalcEffectivePriority(tk[t]), 1)
      target == IF queueIndex = 0 THEN Len(q) ELSE queueIndex
  IN [q EXCEPT ![target] = Enqueue(tk, @, t)]

RECURSIVE EnqueueTasks(_, _, _)
EnqueueTasks(tk, q, items) ==
  IF items = <<>> THEN q ELSE EnqueueTasks(tk, EnqueueTask(tk, q, Head(items)), Tail(items))

\* #adjustPriorities, tiers index..last. In one tier the while loop takes the root
\* and puts it back when its effective priority is <= the threshold, so the heap
\* never gets empty and the loop never ends when the tier holds such a task;
\* otherwise every task is taken out and enqueued again by #enqueueTask.
RECURSIVE AdjustPrioritiesFrom(_, _, _)
AdjustPrioritiesFrom(tk, q, index) ==
  IF index > Len(q) THEN [q |-> q, hung |-> FALSE]
  ELSE LET threshold == thresholds[index]
           stays == \E k \in 1..Len(q[index]) :
                       ~(CalcEffectivePriority(tk[q[index][k]]) > threshold)
           temp == Drain(tk, q[index])
       IN IF stays THEN [q |-> q, hung |-> TRUE]
          ELSE AdjustPrioritiesFrom(tk,
                 EnqueueTasks(tk, [q EXCEPT ![index] = <<>>], temp), index + 1)

AdjustPriorities(tk, q) == AdjustPrioritiesFrom(tk, q, 1)

\* #dequeueTask: the tier the task is taken from, 0 for undefined
RECURSIVE DequeueTaskFrom(_, _, _)
DequeueTaskFrom(q, rc, i) ==
  IF i > Len(thresholds) THEN 0
  ELSE LET remaining == maxConcurrency - RunningTaskCount(rc)
           concurrency == GetConcurrency(i, q, rc)
           levelRemaining == concurrency - rc[i]
           available == Min(remaining, levelRemaining)
       IN IF available > 0 /\ Len(q[i]) > 0 THEN i
          ELSE DequeueTaskFrom(q, rc, i + 1)

\* #dequeueTask with the for loop started at the second tier
DequeueTask_SkipsFirstTier(q, rc) ==
  IF maxConcurrency - RunningTaskCount(rc) <= 0 THEN 0 ELSE DequeueTaskFrom(q, rc, 2)

DequeueTask(q, rc) ==
  IF maxConcurrency - RunningTaskCount(rc) <= 0 THEN 0 ELSE DequeueTaskFrom(q, rc, 1)

\* #executeTask that does not emit start
ExecuteTask_NoStartEvent(st, t, from) ==
  LET queueIndex == FindTaskQueueIndex(st.tk[t])
      started == [st.tk EXCEPT ![t].status = TaskStatus.Running,
                               ![t].queueIndex = queueIndex,
                               ![t].from = from,
                               ![t].work = "called"]
  IN [st EXCEPT !.rc = [st.rc EXCEPT ![queueIndex] = @ + 1], !.tk = started]

\* #executeTask up to its await: the counter of the tier found from the task's
\* effective priority goes up, the task is Running, start is emitted, the work is called
ExecuteTask(st, t, from) ==
  LET queueIndex == FindTaskQueueIndex(st.tk[t])
      started == [st.tk EXCEPT ![t].status = TaskStatus.Running,
                               ![t].queueIndex = queueIndex,
                               ![t].from = from,
                               ![t].work = "called"]
  IN [st EXCEPT !.rc = [st.rc EXCEPT ![queueIndex] = @ + 1],
                !.tk = Emit(started, t, "start")]

\* one dispatch decision as #dequeueTask saw it: the counters, the heap sizes and
\* the quota getConcurrency() gives each tier in that state, the tier the task was
\* taken from and the tier #executeTask charged
Decision(st, t, from, after) ==
  [task |-> t, from |-> from, queueIndex |-> after.tk[t].queueIndex,
   running |-> st.rc,
   pending |-> [i \in 1..Len(st.q) |-> Len(st.q[i])],
   quotas |-> [i \in 1..Len(st.q) |-> GetConcurrency(i, st.q, st.rc)],
   effective |-> CalcEffectivePriority(st.tk[t]),
   basePriority |-> st.tk[t].basePriority]

\* the while loop of #schedule
RECURSIVE ScheduleLoop(_)
ScheduleLoop(st) ==
  IF ~(RunningTaskCount(st.rc) < maxConcurrency) THEN st
  ELSE LET i == DequeueTask(st.q, st.rc)
       IN IF i = 0 THEN st
          ELSE LET t == st.q[i][1]
                   taken == [st EXCEPT !.q = [st.q EXCEPT ![i] = Dequeue(st.tk, @)]]
                   after == ExecuteTask(taken, t, i)
               IN ScheduleLoop([after EXCEPT !.log = Append(@, Decision(st, t, i, after))])

\* #schedule without the test of the paused flag
Schedule_IgnoresPause(st, paused) ==
  IF RunningTaskCount(st.rc) >= maxConcurrency THEN st ELSE ScheduleLoop(st)

\* #schedule
Schedule(st, paused) ==
  IF paused \/ RunningTaskCount(st.rc) >= maxConcurrency THEN st
  ELSE IF now - st.lpc > priorityCheckInterval
       THEN LET adj == AdjustPriorities(st.tk, st.q)
            IN IF adj.hung THEN [st EXCEPT !.hung = TRUE]
               ELSE ScheduleLoop([st EXCEPT !.q = adj.q, !.lpc = now])
       ELSE ScheduleLoop(st)

\* the scheduler's fields as one record, and back
Fields == [q |-> priorityQueues, rc |-> runningCounts, tk |-> tasks,
           lpc |-> lastPriorityCheck, hung |-> FALSE, log |-> <<>>]

Store(st) ==
  /\ priorityQueues' = st.q
  /\ runningCounts' = st.rc
  /\ tasks' = st.tk
  /\ lastPriorityCheck' = st.lpc
  /\ hung' = st.hung
  /\ dispatched' = st.log

(* ---------------------------- EventEmitter ----------------------------- *)
\* the events this.emit() was called with for task t in the step
Emitted(t) ==
  SubSeq(tasks'[t].events,
         (IF t <= Len(tasks) THEN Len(tasks[t].events) ELSE 0) + 1,
         Len(tasks'[t].events))

\* emit: this.handlers.get(event)?.forEach(handler => handler(task, error)), for
\* every emit of the step, with the handlers registered while it runs
Delivered(registered) ==
  delivered' = [t \in 1..Len(tasks') |->
                  (IF t <= Len(tasks) THEN delivered[t] ELSE <<>>)
                    \o SelectSeq(Emitted(t), LAMBDA e : e \in registered)]

\* an operation that emits to the handlers registered and leaves them registered
EmitToHandlers == handlers' = handlers /\ Delivered(handlers)

\* removeAllListeners() before the emits of the step
RemoveAllListeners == handlers' = {} /\ Delivered({})

(* ------------------------------- actions ------------------------------- *)
TaskIds == 1..Len(tasks)

\* no continuation of #executeTask is waiting in the microtask queue. Continuations
\* run before any timer callback; the model lets one wait at a time and holds the
\* clock meanwhile (the order in which handles settle does not reach the scheduler)
NoContinuationQueued ==
  \A t \in TaskIds : ~(tasks[t].status = TaskStatus.Running
                       /\ tasks[t].work \in {"resolved", "rejected"})

\* add() without the test of #isDisposed
Add_IgnoresDisposed(given, priority) ==
  /\ ~hung
  /\ Len(tasks) < budget.tasks
  /\ LET id == Len(tasks) + 1
         taskItem == [basePriority |-> IF given THEN priority ELSE GetDefaultPriority,
                      addedAt |-> now,
                      status |-> TaskStatus.Pending,
                      queueIndex |-> 0, from |-> 0,
                      work |-> "idle", handle |-> "pending", events |-> <<>>]
         tk == Append(tasks, taskItem)
         enqueued == [Fields EXCEPT !.tk = Emit(tk, id, "enqueue"),
                                    !.q = EnqueueTask(tk, priorityQueues, id)]
     IN /\ Store(Schedule(enqueued, isPaused))
        /\ last' = <<"add", id, "ok">>
  /\ UNCHANGED <<config, now, isPaused, isDisposed, cleanupTimer>>
  /\ EmitToHandlers

\* add(task, priority); given = FALSE when the priority is left out
Add(given, priority) ==
  /\ ~hung
  /\ IF isDisposed
     THEN /\ last' = <<"add", 0, "throw">>
          /\ dispatched' = <<>>
          /\ UNCHANGED <<tasks, priorityQueues, runningCounts, lastPriorityCheck, hung>>
     ELSE /\ Len(tasks) < budget.tasks
          /\ LET id == Len(tasks) + 1
                 taskItem == [basePriority |-> IF given THEN priority ELSE GetDefaultPriority,
                              addedAt |-> now,
                              status |-> TaskStatus.Pending,
                              queueIndex |-> 0, from |-> 0,
                              work |-> "idle", handle |-> "pending", events |-> <<>>]
                 tk == Append(tasks, taskItem)
                 enqueued == [Fields EXCEPT !.tk = Emit(tk, id, "enqueue"),
                                            !.q = EnqueueTask(tk, priorityQueues, id)]
             IN /\ Store(Schedule(enqueued, isPaused))
                /\ last' = <<"add", id, "ok">>
  /\ UNCHANGED <<config, now, isPaused, isDisposed, cleanupTimer>>
  /\ EmitToHandlers

\* getState(): per tier the quota getConcurrency() returns, the running counter and
\* the heap size; returned as the second component of last
GetStateCall ==
  /\ ~hung
  /\ last' = <<"getState",
               [i \in 1..Len(thresholds) |->
                  [concurrency |-> GetConcurrency(i, priorityQueues, runningCounts),
                   running |-> runningCounts[i],
                   pending |-> Len(priorityQueues[i])]],
               "ok">>
  /\ dispatched' = <<>>
  /\ UNCHANGED <<config, now, tasks, priorityQueues, runningCounts, isPaused, isDisposed,
                 cleanupTimer, lastPriorityCheck, hung>>
  /\ EmitToHandlers

\* PriorityQueue.enqueue(item) on the first heap, the item a new TaskItem with the
\* given basePriority, added now
QueueEnqueue(priority) ==
  /\ Len(tasks) < budget.tasks
  /\ LET id == Len(tasks) + 1
         item == [basePriority |-> priority, addedAt |-> now,
                  status |-> TaskStatus.Pending, queueIndex |-> 0, from |-> 0,
                  work |-> "idle", handle |-> "pending", events |-> <<>>]
     IN /\ tasks' = Append(tasks, item)
        /\ priorityQueues' = [priorityQueues EXCEPT ![1] = Enqueue(tasks', @, id)]
        /\ last' = <<"enqueue", id, "void">>
  /\ dispatched' = <<>>
  /\ UNCHANGED <<config, now, runningCounts, isPaused, isDisposed, cleanupTimer,
                 lastPriorityCheck, hung>>
  /\ EmitToHandlers

\* PriorityQueue.dequeue() on the first heap: the root, undefined when the array is
\* empty
QueueDequeue ==
  /\ LET h == priorityQueues[1]
     IN IF h = <<>>
        THEN /\ priorityQueues' = priorityQueues
             /\ last' = <<"dequeue", 0, "undefined">>
        ELSE /\ priorityQueues' = [priorityQueues EXCEPT ![1] = Dequeue(tasks, h)]
             /\ last' = <<"dequeue", h[1], "item">>
  /\ dispatched' = <<>>
  /\ UNCHANGED <<config, now, tasks, runningCounts, isPaused, isDisposed, cleanupTimer,
                 lastPriorityCheck, hung>>
  /\ EmitToHandlers

\* on(event, handler)
On(event) ==
  /\ ~hung
  /\ handlers' = handlers \cup {event}
  /\ last' = <<"on", 0, event>>
  /\ dispatched' = <<>>
  /\ UNCHANGED <<config, now, tasks, priorityQueues, runningCounts, isPaused, isDisposed,
                 cleanupTimer, lastPriorityCheck, hung, delivered>>

\* off(event, handler)
Off(event) ==
  /\ ~hung
  /\ handlers' = handlers \ {event}
  /\ last' = <<"off", 0, event>>
  /\ dispatched' = <<>>
  /\ UNCHANGED <<config, now, tasks, priorityQueues, runningCounts, isPaused, isDisposed,
                 cleanupTimer, lastPriorityCheck, hung, delivered>>

\* pause()
Pause ==
  /\ ~hung
  /\ isPaused' = TRUE
  /\ last' = <<"pause", 0, "void">>
  /\ dispatched' = <<>>
  /\ UNCHANGED <<config, now, tasks, priorityQueues, runningCounts, isDisposed,
                 cleanupTimer, lastPriorityCheck, hung>>
  /\ EmitToHandlers

\* resume() that clears the flag and does not call #schedule
Resume_OnlyClearsFlag ==
  /\ ~hung
  /\ isPaused' = FALSE
  /\ dispatched' = <<>>
  /\ last' = <<"resume", 0, "void">>
  /\ UNCHANGED <<config, now, tasks, priorityQueues, runningCounts, lastPriorityCheck,
                 hung, isDisposed, cleanupTimer>>
  /\ EmitToHandlers

\* resume()
Resume ==
  /\ ~hung
  /\ IF ~isPaused
     THEN /\ dispatched' = <<>>
          /\ UNCHANGED <<tasks, priorityQueues, runningCounts, lastPriorityCheck,
                         hung, isPaused>>
     ELSE /\ isPaused' = FALSE
          /\ Store(Schedule(Fields, FALSE))
  /\ last' = <<"resume", 0, "void">>
  /\ UNCHANGED <<config, now, isDisposed, cleanupTimer>>
  /\ EmitToHandlers

\* cancel() that marks the task but puts every item back into the heap
RECURSIVE CancelFrom_KeepsItem(_, _, _, _)
CancelFrom_KeepsItem(tk, q, taskId, index) ==
  IF index > Len(q) THEN [tk |-> tk, q |-> q, found |-> FALSE]
  ELSE LET found == \E k \in 1..Len(q[index]) : q[index][k] = taskId
       IN IF found THEN [tk |-> MarkCancelled(tk, taskId), q |-> q, found |-> TRUE]
          ELSE CancelFrom_KeepsItem(tk, q, taskId, index + 1)

\* cancel() that returns as soon as the task is found, before the other items
\* of that heap are enqueued again
RECURSIVE CancelFrom_LosesHeap(_, _, _, _)
CancelFrom_LosesHeap(tk, q, taskId, index) ==
  IF index > Len(q) THEN [tk |-> tk, q |-> q, found |-> FALSE]
  ELSE LET found == \E k \in 1..Len(q[index]) : q[index][k] = taskId
       IN IF found
          THEN [tk |-> MarkCancelled(tk, taskId), q |-> [q EXCEPT ![index] = <<>>],
                found |-> TRUE]
          ELSE CancelFrom_LosesHeap(tk, q, taskId, index + 1)

\* cancel(taskId), tiers index..last: each heap is emptied and built again
\* without the task; the search stops after the tier that held it
RECURSIVE CancelFrom(_, _, _, _)
CancelFrom(tk, q, taskId, index) ==
  IF index > Len(q) THEN [tk |-> tk, q |-> q, found |-> FALSE]
  ELSE LET items == Drain(tk, q[index])
           found == \E k \in 1..Len(items) : items[k] = taskId
           temp == SelectSeq(items, LAMBDA x : x # taskId)
           tk1 == IF found THEN MarkCancelled(tk, taskId) ELSE tk
           q1 == [q EXCEPT ![index] = EnqueueAll(tk1, <<>>, temp)]
       IN IF found THEN [tk |-> tk1, q |-> q1, found |-> TRUE]
          ELSE CancelFrom(tk1, q1, taskId, index + 1)

\* cancel() that goes by the task's status instead of the heaps: a Running task
\* is marked Cancelled too
Cancel_AlsoRunning(taskId) ==
  /\ ~hung
  /\ LET r == CancelFrom(tasks, priorityQueues, taskId, 1)
         running == tasks[taskId].status = TaskStatus.Running
     IN /\ tasks' = IF running
                    THEN [tasks EXCEPT ![taskId].status = TaskStatus.Cancelled]
                    ELSE r.tk
        /\ priorityQueues' = r.q
        /\ last' = <<"cancel", taskId, IF r.found \/ running THEN "true" ELSE "false">>
  /\ dispatched' = <<>>
  /\ UNCHANGED <<config, now, runningCounts, isPaused, isDisposed, cleanupTimer,
                 lastPriorityCheck, hung>>
  /\ EmitToHandlers

\* cancel() that ends with a dispatch round
Cancel_ThenSchedules(taskId) ==
  /\ ~hung
  /\ LET r == CancelFrom(tasks, priorityQueues, taskId, 1)
     IN /\ Store(Schedule([Fields EXCEPT !.tk = r.tk, !.q = r.q], isPaused))
        /\ last' = <<"cancel", taskId, IF r.found THEN "true" ELSE "false">>
  /\ UNCHANGED <<config, now, isPaused, isDisposed, cleanupTimer>>
  /\ EmitToHandlers

\* cancel(taskId)
Cancel(taskId) ==
  /\ ~hung
  /\ LET r == CancelFrom(tasks, priorityQueues, taskId, 1)
     IN /\ tasks' = r.tk
        /\ priorityQueues' = r.q
        /\ last' = <<"cancel", taskId, IF r.found THEN "true" ELSE "false">>
  /\ dispatched' = <<>>
  /\ UNCHANGED <<config, now, runningCounts, isPaused, isDisposed, cleanupTimer,
                 lastPriorityCheck, hung>>
  /\ EmitToHandlers

\* the tasks of all heaps, tier by tier, in dequeue order
RECURSIVE DrainAll(_, _, _)
DrainAll(tk, q, index) ==
  IF index > Len(q) THEN <<>> ELSE Drain(tk, q[index]) \o DrainAll(tk, q, index + 1)

RECURSIVE CancelAll(_, _)
CancelAll(tk, items) ==
  IF items = <<>> THEN tk
  ELSE CancelAll(MarkCancelled(tk, Head(items)), Tail(items))

\* clear(): what it does to the fields
ClearFields ==
  /\ tasks' = CancelAll(tasks, DrainAll(tasks, priorityQueues, 1))
  /\ priorityQueues' = [i \in 1..Len(priorityQueues) |-> <<>>]
  /\ runningCounts' = InitRunningCount(thresholds)

\* clear()
Clear ==
  /\ ~hung
  /\ ClearFields
  /\ last' = <<"clear", 0, "void">>
  /\ dispatched' = <<>>
  /\ UNCHANGED <<config, now, isPaused, isDisposed, cleanupTimer, lastPriorityCheck, hung>>
  /\ EmitToHandlers

\* dispose() without clearInterval
Dispose_KeepsTimer ==
  /\ ~hung
  /\ isDisposed' = TRUE
  /\ ClearFields
  /\ last' = <<"dispose", 0, "void">>
  /\ dispatched' = <<>>
  /\ UNCHANGED <<config, now, isPaused, lastPriorityCheck, hung, cleanupTimer>>
  /\ RemoveAllListeners

\* dispose() that starts the interval again when it finds it cleared
Dispose_RestartsTimer ==
  /\ ~hung
  /\ isDisposed' = TRUE
  /\ cleanupTimer' = IF cleanupTimer = 0 THEN now + cleanupInterval ELSE 0
  /\ ClearFields
  /\ last' = <<"dispose", 0, "void">>
  /\ dispatched' = <<>>
  /\ UNCHANGED <<config, now, isPaused, lastPriorityCheck, hung>>
  /\ RemoveAllListeners

\* dispose() without removeAllListeners()
Dispose_KeepsListeners ==
  /\ ~hung
  /\ isDisposed' = TRUE
  /\ cleanupTimer' = 0
  /\ ClearFields
  /\ last' = <<"dispose", 0, "void">>
  /\ dispatched' = <<>>
  /\ UNCHANGED <<config, now, isPaused, lastPriorityCheck, hung>>
  /\ EmitToHandlers

\* dispose()
Dispose ==
  /\ ~hung
  /\ isDisposed' = TRUE
  /\ cleanupTimer' = 0
  /\ ClearFields
  /\ last' = <<"dispose", 0, "void">>
  /\ dispatched' = <<>>
  /\ UNCHANGED <<config, now, isPaused, lastPriorityCheck, hung>>
  /\ RemoveAllListeners

\* checkExpiredTasks that keeps a task whose age equals taskTTL
RECURSIVE CheckExpiredFrom_StrictlyOlder(_, _, _)
CheckExpiredFrom_StrictlyOlder(tk, q, index) ==
  IF index > Len(q) THEN [tk |-> tk, q |-> q]
  ELSE LET items == Drain(tk, q[index])
           validTasks == SelectSeq(items, LAMBDA x : now - tk[x].addedAt <= taskTTL)
           expired == SelectSeq(items, LAMBDA x : ~(now - tk[x].addedAt <= taskTTL))
           tk1 == CancelAll(tk, expired)
       IN CheckExpiredFrom_StrictlyOlder(tk1,
            [q EXCEPT ![index] = EnqueueAll(tk1, <<>>, validTasks)], index + 1)

\* checkExpiredTasks, tiers index..last
RECURSIVE CheckExpiredFrom(_, _, _)
CheckExpiredFrom(tk, q, index) ==
  IF index > Len(q) THEN [tk |-> tk, q |-> q]
  ELSE LET items == Drain(tk, q[index])
           validTasks == SelectSeq(items, LAMBDA x : now - tk[x].addedAt < taskTTL)
           expired == SelectSeq(items, LAMBDA x : ~(now - tk[x].addedAt < taskTTL))
           tk1 == CancelAll(tk, expired)
       IN CheckExpiredFrom(tk1, [q EXCEPT ![index] = EnqueueAll(tk1, <<>>, validTasks)],
                           index + 1)

\* the interval fires and the callback returns without looking at the heaps
ExpiryTick_RearmsOnly ==
  /\ ~hung
  /\ cleanupTimer # 0
  /\ now >= cleanupTimer
  /\ NoContinuationQueued
  /\ cleanupTimer' = now + cleanupInterval
  /\ last' = <<"expire", 0, "void">>
  /\ dispatched' = <<>>
  /\ UNCHANGED <<config, now, tasks, priorityQueues, runningCounts, isPaused, isDisposed,
                 lastPriorityCheck, hung>>
  /\ EmitToHandlers

\* the setInterval callback of #startExpirationCheck fires (never before it is due)
ExpiryTick ==
  /\ ~hung
  /\ cleanupTimer # 0
  /\ now >= cleanupTimer
  /\ NoContinuationQueued
  /\ LET r == CheckExpiredFrom(tasks, priorityQueues, 1)
         cancelled == {t \in TaskIds : r.tk[t].status # tasks[t].status}
     IN /\ tasks' = r.tk
        /\ priorityQueues' = r.q
        /\ last' = <<"expire", Cardinality(cancelled), "void">>
  /\ cleanupTimer' = now + cleanupInterval
  /\ dispatched' = <<>>
  /\ UNCHANGED <<config, now, runningCounts, isPaused, isDisposed, lastPriorityCheck, hung>>
  /\ EmitToHandlers

\* the clock advances
Tick ==
  /\ ~hung
  /\ now < budget.time
  /\ NoContinuationQueued
  /\ now' = now + 1
  /\ last' = <<"tick", 0, "void">>
  /\ dispatched' = <<>>
  /\ UNCHANGED <<config, tasks, priorityQueues, runningCounts, isPaused, isDisposed,
                 cleanupTimer, lastPriorityCheck, hung>>
  /\ EmitToHandlers

\* a wrapper of add() that resolves the handle also when the work rejects
WorkSettles_AlwaysResolves(t, ok) ==
  /\ ~hung
  /\ tasks[t].status = TaskStatus.Running
  /\ tasks[t].work = "called"
  /\ NoContinuationQueued
  /\ tasks' = [tasks EXCEPT ![t].work = IF ok THEN "resolved" ELSE "rejected",
                            ![t].handle = "fulfilled"]
  /\ last' = <<"settle", t, IF ok THEN "resolved" ELSE "rejected">>
  /\ dispatched' = <<>>
  /\ UNCHANGED <<config, now, priorityQueues, runningCounts, isPaused, isDisposed,
                 cleanupTimer, lastPriorityCheck, hung>>
  /\ EmitToHandlers

\* the promise returned by the caller's work settles: the wrapper of add()
\* resolves or rejects the handle; #executeTask is still at its await
WorkSettles(t, ok) ==
  /\ ~hung
  /\ tasks[t].status = TaskStatus.Running
  /\ tasks[t].work = "called"
  /\ NoContinuationQueued
  /\ tasks' = [tasks EXCEPT ![t].work = IF ok THEN "resolved" ELSE "rejected",
                            ![t].handle = IF ok THEN "fulfilled" ELSE "rejected"]
  /\ last' = <<"settle", t, IF ok THEN "resolved" ELSE "rejected">>
  /\ dispatched' = <<>>
  /\ UNCHANGED <<config, now, priorityQueues, runningCounts, isPaused, isDisposed,
                 cleanupTimer, lastPriorityCheck, hung>>
  /\ EmitToHandlers

\* #executeTask whose catch branch resets the counters of every tier
Continue_FailureResetsCounters(t) ==
  /\ ~hung
  /\ tasks[t].status = TaskStatus.Running
  /\ tasks[t].work \in {"resolved", "rejected"}
  /\ LET ok == tasks[t].work = "resolved"
         queueIndex == tasks[t].queueIndex
         tk1 == Emit([tasks EXCEPT ![t].status = IF ok THEN TaskStatus.Success
                                                 ELSE TaskStatus.Failed,
                                   ![t].work = "done"],
                     t, IF ok THEN "success" ELSE "fail")
         released == [Fields EXCEPT !.tk = Forget(Emit(tk1, t, "complete"), t),
                                    !.rc = IF ok THEN [runningCounts EXCEPT ![queueIndex] = @ - 1]
                                           ELSE InitRunningCount(thresholds)]
     IN Store(Schedule(released, isPaused))
  /\ last' = <<"complete", t, IF tasks[t].work = "resolved" THEN "success" ELSE "fail">>
  /\ UNCHANGED <<config, now, isPaused, isDisposed, cleanupTimer>>
  /\ EmitToHandlers

\* #executeTask after its await: try or catch branch, then finally
Continue(t) ==
  /\ ~hung
  /\ tasks[t].status = TaskStatus.Running
  /\ tasks[t].work \in {"resolved", "rejected"}
  /\ LET ok == tasks[t].work = "resolved"
         queueIndex == tasks[t].queueIndex
         tk1 == Emit([tasks EXCEPT ![t].status = IF ok THEN TaskStatus.Success
                                                 ELSE TaskStatus.Failed,
                                   ![t].work = "done"],
                     t, IF ok THEN "success" ELSE "fail")
         released == [Fields EXCEPT !.tk = Forget(Emit(tk1, t, "complete"), t),
                                    !.rc = [runningCounts EXCEPT ![queueIndex] = @ - 1]]
     IN Store(Schedule(released, isPaused))
  /\ last' = <<"complete", t, IF tasks[t].work = "resolved" THEN "success" ELSE "fail">>
  /\ UNCHANGED <<config, now, isPaused, isDisposed, cleanupTimer>>
  /\ EmitToHandlers

(* ---------------------------- specification ---------------------------- *)
\* the state the constructor leaves, at clock reading 0
Constructed ==
  /\ now = 0
  /\ tasks = <<>>
  /\ priorityQueues = [i \in 1..Len(thresholds) |-> <<>>]
  /\ runningCounts = InitRunningCount(thresholds)
  /\ isPaused = FALSE
  /\ isDisposed = FALSE
  /\ cleanupTimer = cleanupInterval
  /\ lastPriorityCheck = 0
  /\ hung = FALSE
  /\ last = <<"new", 0, "void">>
  /\ handlers = {}
  /\ delivered = <<>>
  /\ dispatched = <<>>

\* default thresholds and default allocation, maxConcurrency 1 or 2
Init ==
  /\ maxConcurrency \in {1, 2}
  /\ calcConcurrency = <<>>
  /\ thresholds = NormalizeThresholds(DEFAULT_THRESHOLDS)
  /\ priorities = {0, 1, 11}
  /\ budget = [tasks |-> MaxTasks, time |-> MaxTime]
  /\ priorityDecayInterval = 1
  /\ priorityCheckInterval = 1
  /\ Constructed

Next ==
  \/ \E p \in priorities : Add(TRUE, p)
  \/ Add(FALSE, 0)
  \/ Pause
  \/ Resume
  \/ \E t \in TaskIds : Cancel(t)
  \/ Clear
  \/ Dispose
  \/ ExpiryTick
  \/ Tick
  \/ \E t \in TaskIds, ok \in BOOLEAN : WorkSettles(t, ok)
  \/ \E t \in TaskIds : Continue(t)

Spec == Init /\ [][Next]_vars

\* maxConcurrency 4, tasks of the first and of the last tier, the clock at rest:
\* callers add, cancel, pause and resume while every started task keeps running
InitResume ==
  /\ maxConcurrency = 4
  /\ calcConcurrency = <<>>
  /\ thresholds = NormalizeThresholds(DEFAULT_THRESHOLDS)
  /\ priorities = {0, 11}
  /\ budget = [tasks |-> MaxTasksResume, time |-> 0]
  /\ priorityDecayInterval = 1
  /\ priorityCheckInterval = 1
  /\ Constructed

NextResume ==
  \/ \E p \in priorities : Add(TRUE, p)
  \/ Pause
  \/ Resume
  \/ \E t \in TaskIds : Cancel(t)

SpecResume == InitResume /\ [][NextResume]_vars

\* thresholds [0, 10], default allocation, maxConcurrency 10, tasks added with
\* basePriority 0 and 20, the clock at rest: callers add, cancel, pause and
\* resume while started tasks settle
InitExample ==
  /\ maxConcurrency = 10
  /\ calcConcurrency = <<>>
  /\ thresholds = NormalizeThresholds(DEFAULT_THRESHOLDS)
  /\ priorities = {0, 20}
  /\ budget = [tasks |-> MaxTasksExample, time |-> 0]
  /\ priorityDecayInterval = 1
  /\ priorityCheckInterval = 1
  /\ Constructed

NextExample ==
  \/ \E p \in priorities : Add(TRUE, p)
  \/ Pause
  \/ Resume
  \/ \E t \in TaskIds : Cancel(t)
  \/ \E t \in TaskIds, ok \in BOOLEAN : WorkSettles(t, ok)
  \/ \E t \in TaskIds : Continue(t)

SpecExample == InitExample /\ [][NextExample]_vars

\* maxConcurrency 1, default allocation, tasks of the first and of the last tier,
\* the clock at rest: callers add, pause, resume and clear while started tasks settle
InitSerial ==
  /\ maxConcurrency = 1
  /\ calcConcurrency = <<>>
  /\ thresholds = NormalizeThresholds(DEFAULT_THRESHOLDS)
  /\ priorities = {0, 11}
  /\ budget = [tasks |-> MaxTasksSerial, time |-> 0]
  /\ priorityDecayInterval = 1
  /\ priorityCheckInterval = 1
  /\ Constructed

NextSerial ==
  \/ \E p \in priorities : Add(TRUE, p)
  \/ Pause
  \/ Resume
  \/ Clear
  \/ \E t \in TaskIds, ok \in BOOLEAN : WorkSettles(t, ok)
  \/ \E t \in TaskIds : Continue(t)

SpecSerial == InitSerial /\ [][NextSerial]_vars

\* maxConcurrency 1, default allocation, default decay curve: callers add, pause
\* and resume; nobody cancels, clears or disposes
InitLive ==
  /\ maxConcurrency = 1
  /\ calcConcurrency = <<>>
  /\ thresholds = NormalizeThresholds(DEFAULT_THRESHOLDS)
  /\ priorities = {0, 11}
  /\ budget = [tasks |-> MaxTasksLive, time |-> MaxTimeLive]
  /\ priorityDecayInterval = 1
  /\ priorityCheckInterval = 1
  /\ Constructed

NextLive ==
  \/ \E p \in priorities : Add(TRUE, p)
  \/ Pause
  \/ Resume
  \/ ExpiryTick
  \/ Tick
  \/ \E t \in TaskIds, ok \in BOOLEAN : WorkSettles(t, ok)
  \/ \E t \in TaskIds : Continue(t)

\* resume() of a paused scheduler can be called unless the thread is inside the
\* loop that never ends; a continuation of #executeTask can run when one is queued
ResumeEnabled == isPaused /\ ~hung
ContinueEnabled == ~hung /\ ~NoContinuationQueued

\* fairness: time advances, the interval timer keeps firing, the work of a Running
\* task settles (with maxConcurrency 1 and no clear() at most one task is Running),
\* a paused scheduler is resumed and a queued continuation of #executeTask runs.
\* The last two are weak fairness written out, []<>~ENABLED \/ []<>step, with the
\* enabling condition of the step given as a state predicate.
FairLive ==
  /\ WF_vars(Tick)
  /\ WF_vars(ExpiryTick)
  /\ WF_vars(\E t \in TaskIds, ok \in BOOLEAN : WorkSettles(t, ok))
  /\ []<>~ResumeEnabled \/ []<><<isPaused /\ Resume>>_vars
  /\ []<>~ContinueEnabled \/ []<><<\E t \in TaskIds : Continue(t)>>_vars

SpecLive == InitLive /\ [][NextLive]_vars /\ FairLive

\* fairness of the timers only: time advances, the interval timer keeps firing
\* (a queued continuation runs first, as microtasks do); the work of a Running
\* task may never settle and a paused scheduler may stay paused
FairExpiry ==
  /\ WF_vars(Tick)
  /\ WF_vars(ExpiryTick)
  /\ []<>~ContinueEnabled \/ []<><<\E t \in TaskIds : Continue(t)>>_vars

SpecExpiry == InitLive /\ [][NextLive]_vars /\ FairExpiry

\* thresholds configured in ascending order, in descending order and in no order,
\* priorities on, between and above the thresholds; every operation of Next
InitPlace ==
  /\ maxConcurrency \in {1, 2}
  /\ calcConcurrency = <<>>
  /\ \E input \in {<<0, 10>>, <<10, 0>>, <<5, 10, 0>>} : thresholds = NormalizeThresholds(input)
  /\ priorities = {0, 3, 10, 11}
  /\ budget = [tasks |-> MaxTasks, time |-> MaxTime]
  /\ priorityDecayInterval = 1
  /\ priorityCheckInterval = 1
  /\ Constructed

SpecPlace == InitPlace /\ [][Next]_vars

\* calcConcurrency gives one tier the quota 0 and the other the quota 1 in every
\* state, maxConcurrency 2; every operation of Next
InitZero ==
  /\ maxConcurrency = 2
  /\ calcConcurrency \in {<<1, 0>>, <<0, 1>>}
  /\ thresholds = NormalizeThresholds(DEFAULT_THRESHOLDS)
  /\ priorities = {0, 1, 11}
  /\ budget = [tasks |-> MaxTasks, time |-> MaxTime]
  /\ priorityDecayInterval = 1
  /\ priorityCheckInterval = 1
  /\ Constructed

SpecZero == InitZero /\ [][Next]_vars

\* the same without clear() and dispose()
NextKeep ==
  \/ \E p \in priorities : Add(TRUE, p)
  \/ Add(FALSE, 0)
  \/ Pause
  \/ Resume
  \/ \E t \in TaskIds : Cancel(t)
  \/ ExpiryTick
  \/ Tick
  \/ \E t \in TaskIds, ok \in BOOLEAN : WorkSettles(t, ok)
  \/ \E t \in TaskIds : Continue(t)

SpecZeroKeep == InitZero /\ [][NextKeep]_vars

\* the constructor called with maxConcurrency -1, 0 or 1: the option is stored as
\* given and the constructor returns; every operation of Next
InitConfig ==
  /\ maxConcurrency \in {-1, 0, 1}
  /\ calcConcurrency = <<>>
  /\ thresholds = NormalizeThresholds(DEFAULT_THRESHOLDS)
  /\ priorities = {0, 11}
  /\ budget = [tasks |-> MaxTasks, time |-> MaxTime]
  /\ priorityDecayInterval = 1
  /\ priorityCheckInterval = 1
  /\ Constructed

SpecConfig == InitConfig /\ [][Next]_vars

\* priorities decay every second clock tick, so that tasks added at an even and at
\* an odd clock reading decay at different instants; the aging sweep is not due
\* within the run; all priorities belong to the last tier
InitHeap ==
  /\ maxConcurrency = 1
  /\ calcConcurrency = <<>>
  /\ thresholds = NormalizeThresholds(DEFAULT_THRESHOLDS)
  /\ priorities = {1, 2}
  /\ budget = [tasks |-> MaxTasksHeap, time |-> MaxTimeHeap]
  /\ priorityDecayInterval = 2
  /\ priorityCheckInterval = MaxTimeHeap
  /\ Constructed

NextHeap ==
  \/ \E p \in priorities : Add(TRUE, p)
  \/ Pause
  \/ Resume
  \/ ExpiryTick
  \/ Tick
  \/ \E t \in TaskIds, ok \in BOOLEAN : WorkSettles(t, ok)
  \/ \E t \in TaskIds : Continue(t)

SpecHeap == InitHeap /\ [][NextHeap]_vars

\* callers register and remove handlers for cancel and complete, add, cancel, clear
\* and dispose while tasks run and settle; the clock at rest
InitEvents ==
  /\ maxConcurrency = 1
  /\ calcConcurrency = <<>>
  /\ thresholds = NormalizeThresholds(DEFAULT_THRESHOLDS)
  /\ priorities = {0, 11}
  /\ budget = [tasks |-> MaxTasks, time |-> 0]
  /\ priorityDecayInterval = 1
  /\ priorityCheckInterval = 1
  /\ Constructed

NextEvents ==
  \/ \E e \in {"cancel", "complete"} : On(e)
  \/ \E e \in {"cancel", "complete"} : Off(e)
  \/ \E p \in priorities : Add(TRUE, p)
  \/ \E t \in TaskIds : Cancel(t)
  \/ Clear
  \/ Dispose
  \/ \E t \in TaskIds, ok \in BOOLEAN : WorkSettles(t, ok)
  \/ \E t \in TaskIds : Continue(t)

SpecEvents == InitEvents /\ [][NextEvents]_vars

\* one PriorityQueue with the scheduler's comparator, which does not change over
\* time here because no decay interval passes within the run: items of three
\* priorities are enqueued at two clock readings and dequeued in any order
InitQueue ==
  /\ maxConcurrency = 1
  /\ calcConcurrency = <<>>
  /\ thresholds = NormalizeThresholds(DEFAULT_THRESHOLDS)
  /\ priorities = {0, 1, 2}
  /\ budget = [tasks |-> MaxItemsQueue, time |-> MaxTimeQueue]
  /\ priorityDecayInterval = MaxTimeQueue + 1
  /\ priorityCheckInterval = MaxTimeQueue + 1
  /\ Constructed

NextQueue ==
  \/ \E p \in priorities : QueueEnqueue(p)
  \/ QueueDequeue
  \/ Tick

SpecQueue == InitQueue /\ [][NextQueue]_vars

\* default allocation, every maxConcurrency from 1 on, tasks of the first and of the
\* last tier, the clock at rest: callers add, cancel, pause, resume and read the state
InitQuota ==
  /\ maxConcurrency \in 1..MaxConcurrencyQuota
  /\ calcConcurrency = <<>>
  /\ thresholds = NormalizeThresholds(DEFAULT_THRESHOLDS)
  /\ priorities = {0, 11}
  /\ budget = [tasks |-> MaxTasksQuota, time |-> 0]
  /\ priorityDecayInterval = 1
  /\ priorityCheckInterval = 1
  /\ Constructed

NextQuota ==
  \/ \E p \in priorities : Add(TRUE, p)
  \/ Pause
  \/ Resume
  \/ \E t \in TaskIds : Cancel(t)
  \/ GetStateCall

SpecQuota == InitQuota /\ [][NextQuota]_vars

(* ------------------------------- claims -------------------------------- *)
StatusOf(t) == tasks[t].status
RunningTasks == {t \in TaskIds : StatusOf(t) = TaskStatus.Running}
PendingTasks == {t \in TaskIds : StatusOf(t) = TaskStatus.Pending}
Terminal == {TaskStatus.Success, TaskStatus.Failed, TaskStatus.Cancelled}

\* C1: in every reachable state the sum of the per-tier running counters, which
\* getState() reports as running, is at most maxConcurrency.
C1_GlobalRunningWithinMax ==
  /\ maxConcurrency >= 1
  /\ runningCounts[1] + runningCounts[2] <= maxConcurrency
  /\ GetState(priorityQueues, runningCounts).running = runningCounts[1] + runningCounts[2]

\* C1 witness: the cap binds: the counters add up to the maximum while a task waits
C1_Witness ==
  /\ ~isPaused
  /\ runningCounts[1] + runningCounts[2] = maxConcurrency
  /\ PendingTasks # {}

\* C2: at all times the number of tasks whose status is Running is at most
\* maxConcurrency (also after clear() while tasks run and more tasks are added).
C2_RunningTasksWithinMax == Cardinality(RunningTasks) <= maxConcurrency

\* C3: a task's status changes only Pending -> Running -> {Success, Failed} or
\* Pending -> Cancelled; a terminal status never changes; a task starts as Pending
\* (add() may already have started it when it returns).
C3_StatusTransitions ==
  [][/\ \A t \in TaskIds :
          \/ tasks'[t].status = tasks[t].status
          \/ /\ tasks[t].status = TaskStatus.Pending
             /\ tasks'[t].status \in {TaskStatus.Running, TaskStatus.Cancelled}
          \/ /\ tasks[t].status = TaskStatus.Running
             /\ tasks'[t].status \in {TaskStatus.Success, TaskStatus.Failed}
     /\ Len(tasks') >= Len(tasks)
     /\ \A t \in (1..Len(tasks')) \ TaskIds :
          tasks'[t].status \in {TaskStatus.Pending, TaskStatus.Running}]_vars

\* C3 witness: one task has run to the end and another was cancelled while waiting
C3_Witness ==
  /\ \E t \in TaskIds : StatusOf(t) \in {TaskStatus.Success, TaskStatus.Failed}
  /\ \E t \in TaskIds : StatusOf(t) = TaskStatus.Cancelled
  /\ last[1] = "cancel" /\ last[3] = "false"

\* C4: whenever a task is dispatched, the counter of the tier it is charged to
\* is, after the increment, at most the quota getConcurrency() returned for that
\* tier in that dispatch attempt.
C4_ChargedTierWithinQuota ==
  \A k \in 1..Len(dispatched) :
    LET d == dispatched[k]
    IN d.running[d.queueIndex] + 1 <= d.quotas[d.queueIndex]

\* C5: clear() marks every Pending task Cancelled and empties every heap, and
\* leaves every tier's running counter as it was.
C5_ClearKeepsRunningCounts ==
  [][last'[1] = "clear" =>
       /\ \A t \in TaskIds : tasks[t].status = TaskStatus.Pending
                               => tasks'[t].status = TaskStatus.Cancelled
       /\ \A i \in 1..Len(priorityQueues') : Len(priorityQueues'[i]) = 0
       /\ runningCounts' = runningCounts]_vars

HeapSet(q, i) == {q[i][k] : k \in 1..Len(q[i])}
InHeaps(q, t) == \E i \in 1..Len(q) : t \in HeapSet(q, i)
CancelEvents(t) == Len(SelectSeq(tasks[t].events, LAMBDA e : e = "cancel"))

\* C6: cancel(id) on a Pending task returns true, sets it Cancelled, takes it out
\* of its heap (that tier's pending count drops by one, no other heap changes its
\* content), emits one cancel event; a Cancelled task gets no further event, keeps
\* its status and its work is never called.
C6_CancelPending ==
  [][/\ \A t \in TaskIds :
          (last'[1] = "cancel" /\ last'[2] = t /\ tasks[t].status = TaskStatus.Pending)
          => /\ last'[3] = "true"
             /\ tasks'[t].status = TaskStatus.Cancelled
             /\ ~InHeaps(priorityQueues', t)
             /\ \A i \in 1..Len(priorityQueues) :
                  /\ HeapSet(priorityQueues', i) = HeapSet(priorityQueues, i) \ {t}
                  /\ Len(priorityQueues'[i]) =
                       Len(priorityQueues[i]) - (IF t \in HeapSet(priorityQueues, i) THEN 1 ELSE 0)
             /\ tasks'[t].events = Append(tasks[t].events, "cancel")
             /\ \A u \in TaskIds \ {t} : tasks'[u] = tasks[u]
     /\ \A t \in TaskIds :
          tasks[t].status = TaskStatus.Cancelled
          => /\ tasks'[t] = tasks[t]
             /\ tasks[t].work = "idle"
             /\ CancelEvents(t) = 1
             /\ ~InHeaps(priorityQueues', t)]_vars

\* C6 witness: a cancel() has just returned true and another task still waits
C6_Witness ==
  /\ last[1] = "cancel" /\ last[3] = "true"
  /\ StatusOf(last[2]) = TaskStatus.Cancelled
  /\ \E u \in TaskIds : StatusOf(u) = TaskStatus.Pending /\ InHeaps(priorityQueues, u)

\* C7: cancel(id) on a Running or terminal task returns false, emits nothing and
\* leaves every task, every heap's content and every running counter unchanged.
C7_CancelNotPending ==
  [][\A t \in TaskIds :
       (last'[1] = "cancel" /\ last'[2] = t /\ tasks[t].status # TaskStatus.Pending)
       => /\ last'[3] = "false"
          /\ tasks' = tasks
          /\ \A i \in 1..Len(priorityQueues) :
               /\ HeapSet(priorityQueues', i) = HeapSet(priorityQueues, i)
               /\ Len(priorityQueues'[i]) = Len(priorityQueues[i])
          /\ runningCounts' = runningCounts
          /\ isPaused' = isPaused]_vars

\* C7 witness: cancel() of a Running task has just returned false while a task waits
C7_Witness ==
  /\ last[1] = "cancel" /\ last[3] = "false"
  /\ StatusOf(last[2]) = TaskStatus.Running
  /\ PendingTasks # {}

\* C8: while the scheduler is paused no task goes from Pending to Running; a task
\* that runs while the scheduler is paused still completes: it becomes Success or
\* Failed and its #executeTask gives back the slot it holds.
C8_PausedStartsNothing ==
  [][isPaused' =>
       /\ \A t \in 1..Len(tasks') :
            tasks'[t].status = TaskStatus.Running
            => t \in TaskIds /\ tasks[t].status = TaskStatus.Running
       /\ dispatched' = <<>>
       /\ \A t \in TaskIds :
            (last'[1] = "complete" /\ last'[2] = t /\ tasks[t].status = TaskStatus.Running)
            => /\ tasks'[t].status \in {TaskStatus.Success, TaskStatus.Failed}
               /\ runningCounts' = [runningCounts EXCEPT ![tasks[t].queueIndex] = @ - 1]]_vars

\* C8 witness: a task has completed while the scheduler is paused and a task waits
C8_Witness ==
  /\ isPaused
  /\ last[1] = "complete"
  /\ StatusOf(last[2]) \in {TaskStatus.Success, TaskStatus.Failed}
  /\ PendingTasks # {}

\* a dispatch round would start a task: below the global maximum some tier has a
\* waiting task and a running counter below its quota
Startable ==
  /\ runningCounts[1] + runningCounts[2] < maxConcurrency
  /\ \E i \in 1..Len(priorityQueues) :
       /\ Len(priorityQueues[i]) > 0
       /\ runningCounts[i] < GetConcurrency(i, priorityQueues, runningCounts)

LowestAdmissible(d) ==
  LET ok == {i \in 1..Len(d.pending) : d.pending[i] > 0 /\ d.running[i] < d.quotas[i]}
  IN IF ok = {} THEN 0 ELSE CHOOSE i \in ok : \A j \in ok : i <= j

\* C10 as stated: in every dispatch decision the task started is taken from the
\* lowest tier that has a non-empty heap and a running counter below its quota,
\* and whenever a basePriority-0 task and a basePriority-20 task are both Pending
\* at a decision, the basePriority-0 task is the one started.
C10_ZeroAlwaysBeforeTwenty ==
  \A k \in 1..Len(dispatched) :
    LET d == dispatched[k]
    IN /\ d.from = LowestAdmissible(d)
       /\ (d.pending[1] > 0 /\ d.pending[2] > 0) => d.basePriority = 0

\* C10 amended: in every dispatch decision the task started is taken from the
\* lowest tier that has a non-empty heap and a running counter below its quota;
\* so when a basePriority-0 task and a basePriority-20 task are both Pending, the
\* basePriority-0 task is started first if the first tier's running counter is
\* below its quota, and the basePriority-20 task is started, the basePriority-0
\* task left waiting, if the first tier is at its quota.
C10_LowestAdmissibleTierFirst ==
  \A k \in 1..Len(dispatched) :
    LET d == dispatched[k]
    IN /\ d.from = LowestAdmissible(d)
       /\ (d.pending[1] > 0 /\ d.pending[2] > 0 /\ d.running[1] < d.quotas[1])
            => d.basePriority = 0
       /\ (d.pending[1] > 0 /\ d.pending[2] > 0 /\ d.running[1] >= d.quotas[1])
            => d.basePriority = 20

\* C10 witness: one round started two waiting tasks, the basePriority-0 task,
\* added last, before the basePriority-20 task
C10_Witness ==
  /\ Len(dispatched) = 2
  /\ dispatched[1].task = 2 /\ dispatched[1].basePriority = 0 /\ dispatched[1].from = 1
  /\ dispatched[2].task = 1 /\ dispatched[2].basePriority = 20 /\ dispatched[2].from = 2

\* C11: with maxConcurrency 1 and the default allocation, whenever a task is
\* started no tier of lower index holds a Pending task.
C11_AscendingTierOrder ==
  maxConcurrency = 1 =>
    \A k \in 1..Len(dispatched) :
      \A j \in 1..(dispatched[k].from - 1) : dispatched[k].pending[j] = 0

\* the tier #findTaskQueueIndex gives a task: the first tier whose threshold is
\* >= the task's effective priority, the last tier if there is none
PlacedByEffectivePriority(tk, q) ==
  \A t \in 1..Len(tk) :
    tk[t].status = TaskStatus.Pending => t \in HeapSet(q, FindTaskQueueIndex(tk[t]))

\* C12: a step in which the aging sweep (#adjustPriorities) runs ends with the
\* sweep finished and every Pending task in the heap of the first tier whose
\* threshold is >= the task's effective priority (the last tier if none).
C12_SweepPlacesByEffectivePriority ==
  [][(lastPriorityCheck' # lastPriorityCheck \/ (hung' /\ ~hung))
       => (~hung' /\ PlacedByEffectivePriority(tasks', priorityQueues'))]_vars

\* some task added early enough for the clock of the run to reach the first
\* expiry sweep after its age has reached taskTTL has not reached a terminal status
Unfinished ==
  \E t \in TaskIds :
    /\ tasks[t].status \in {TaskStatus.Pending, TaskStatus.Running}
    /\ tasks[t].addedAt + taskTTL + cleanupInterval - 1 <= budget.time

\* C13: under fairness every submitted task eventually leaves Pending and reaches
\* a terminal status (Success, Failed or Cancelled): from some point on no such
\* task is left.
C13_NoPendingForever == <>[]~Unfinished

\* C14: an expiry sweep marks every Pending task whose age is >= taskTTL Cancelled,
\* takes it out of its heap and emits one cancel event for it; every Pending task
\* whose age is < taskTTL stays Pending in the same tier; Running and finished
\* tasks and the running counters are untouched.
C14_ExpirySweep ==
  [][last'[1] = "expire" =>
       /\ \A t \in TaskIds :
            /\ (tasks[t].status = TaskStatus.Pending /\ now - tasks[t].addedAt >= taskTTL)
               => /\ tasks'[t].status = TaskStatus.Cancelled
                  /\ ~InHeaps(priorityQueues', t)
                  /\ tasks'[t].events = Append(tasks[t].events, "cancel")
                  /\ Len(SelectSeq(tasks'[t].events, LAMBDA e : e = "cancel")) = 1
            /\ (tasks[t].status = TaskStatus.Pending /\ now - tasks[t].addedAt < taskTTL)
               => /\ tasks'[t] = tasks[t]
                  /\ \A i \in 1..Len(priorityQueues) :
                       t \in HeapSet(priorityQueues, i) <=> t \in HeapSet(priorityQueues', i)
            /\ tasks[t].status # TaskStatus.Pending => tasks'[t] = tasks[t]
       /\ Len(tasks') = Len(tasks)
       /\ \A i \in 1..Len(priorityQueues) :
            Len(priorityQueues'[i]) = Cardinality(HeapSet(priorityQueues', i))
       /\ runningCounts' = runningCounts]_vars

\* C14 witness: a sweep has just cancelled one task and kept a younger one waiting
C14_Witness ==
  /\ last[1] = "expire" /\ last[2] = 1
  /\ \E t \in TaskIds : StatusOf(t) = TaskStatus.Cancelled
  /\ \E u \in TaskIds : StatusOf(u) = TaskStatus.Pending /\ InHeaps(priorityQueues, u)

\* some task still waits although it was added early enough for the clock of the
\* run to reach the first expiry sweep after its age has reached taskTTL
WaitsEarly ==
  \E t \in TaskIds :
    /\ tasks[t].status = TaskStatus.Pending
    /\ tasks[t].addedAt + taskTTL + cleanupInterval - 1 <= budget.time

\* C15: while the expiry timer keeps firing (the scheduler is not disposed, the
\* thread is not held by a loop), a task that is never dispatched, for example
\* because the scheduler stays paused, does not stay Pending: it is Cancelled by a
\* sweep once its age has reached taskTTL, nobody calling cancel(); and a task
\* that has started is never Cancelled.
C15_ExpiryCancelsWaiting ==
  /\ <>[](hung \/ ~WaitsEarly)
  /\ [][\A t \in TaskIds :
          tasks[t].status # TaskStatus.Pending => tasks'[t].status = tasks[t].status
                                                   \/ tasks'[t].status # TaskStatus.Cancelled]_vars

\* C15 witness: the scheduler is paused and a sweep has just cancelled a task
\* that was never started
C15_Witness ==
  /\ isPaused
  /\ last[1] = "expire" /\ last[2] >= 1
  /\ \E t \in TaskIds : /\ StatusOf(t) = TaskStatus.Cancelled
                        /\ tasks[t].events = <<"enqueue", "cancel">>
                        /\ tasks[t].work = "idle"

NoneWaiting(tk, q) ==
  /\ \A i \in 1..Len(q) : Len(q[i]) = 0
  /\ \A t \in 1..Len(tk) : tk[t].status # TaskStatus.Pending

\* C16: dispose() leaves every task that was Pending Cancelled and every heap
\* empty; in every later state the scheduler is still disposed, no task waits, every
\* pending count is 0, and the expiry timer does not fire.
C16_DisposeCancelsAndStops ==
  [][/\ last'[1] = "dispose" =>
          \A t \in TaskIds : tasks[t].status = TaskStatus.Pending
                               => tasks'[t].status = TaskStatus.Cancelled
     /\ isDisposed' => /\ NoneWaiting(tasks', priorityQueues')
                       /\ GetState(priorityQueues', runningCounts').pending = 0
                       /\ cleanupTimer' = 0
     /\ isDisposed => isDisposed' /\ last'[1] # "expire"]_vars

\* C16 witness: after dispose() cancelled a waiting task the clock has reached
\* the time at which the interval was due
C16_Witness ==
  /\ isDisposed
  /\ now >= cleanupInterval
  /\ last[1] = "tick"
  /\ \E t \in TaskIds : StatusOf(t) = TaskStatus.Cancelled
                          /\ tasks[t].events = <<"enqueue", "cancel">>

\* C17: add() on a disposed scheduler throws and changes nothing: no task is
\* created or enqueued, no event is emitted, nothing is dispatched, the counters
\* are as before.
C17_AddAfterDisposeThrows ==
  [][(isDisposed /\ last'[1] = "add") =>
       /\ last' = <<"add", 0, "throw">>
       /\ dispatched' = <<>>
       /\ UNCHANGED <<tasks, priorityQueues, runningCounts, isPaused, isDisposed,
                      cleanupTimer, lastPriorityCheck, hung, now>>]_vars

\* C17 witness: add() has just thrown on a disposed scheduler that could still
\* have taken a task
C17_Witness ==
  /\ isDisposed
  /\ last = <<"add", 0, "throw">>
  /\ Len(tasks) < budget.tasks
  /\ runningCounts[1] + runningCounts[2] < maxConcurrency

\* C18: a dispose() called directly after a dispose() changes nothing: the
\* scheduler is disposed, has no timer and empty heaps, and a further dispose()
\* leaves every field, counter and task status as it is.
C18_DisposeIdempotent ==
  last[1] = "dispose" =>
    /\ isDisposed
    /\ cleanupTimer = 0
    /\ NoneWaiting(tasks, priorityQueues)
    /\ ~ENABLED <<Dispose>>_vars

\* C18 witness: dispose() has just returned while a task runs and after it
\* cancelled a waiting one
C18_Witness ==
  /\ last[1] = "dispose"
  /\ \E t \in TaskIds : StatusOf(t) = TaskStatus.Running
  /\ \E t \in TaskIds : StatusOf(t) = TaskStatus.Cancelled
                          /\ tasks[t].events = <<"enqueue", "cancel">>

\* the tasks a call has started, and how many of them it charged to tier i
StartedBy(log) == {log[k].task : k \in 1..Len(log)}
ChargedTo(log, i) == Cardinality({k \in 1..Len(log) : log[k].queueIndex = i})

\* C19: when the work of task t has failed, the continuation of its #executeTask
\* makes t Failed, emits fail and then complete for it, gives back exactly the
\* slot t held (every counter is its old value, minus one for t's tier, plus the
\* tasks the re-invoked dispatch round charged to it) and runs a dispatch round
\* (unless paused, nothing startable is left); the paused flag does not change,
\* and every other task keeps its status, its fields and its tier, except those
\* the dispatch round started from Pending.
C19_FailureIsLocal ==
  [][\A t \in TaskIds :
       (last' = <<"complete", t, "fail">>) =>
         /\ tasks[t].status = TaskStatus.Running
         /\ tasks'[t].status = TaskStatus.Failed
         /\ tasks'[t].events = tasks[t].events \o <<"fail", "complete">>
         /\ \A i \in 1..Len(runningCounts) :
              runningCounts'[i] = runningCounts[i]
                                  - (IF i = tasks[t].queueIndex THEN 1 ELSE 0)
                                  + ChargedTo(dispatched', i)
         /\ hung' \/ isPaused \/ ~Startable'
         /\ isPaused' = isPaused /\ isDisposed' = isDisposed
         /\ Len(tasks') = Len(tasks)
         /\ \A u \in TaskIds \ {t} :
              IF u \in StartedBy(dispatched')
              THEN tasks[u].status = TaskStatus.Pending
                   /\ tasks'[u].status = TaskStatus.Running
              ELSE /\ tasks'[u] = tasks[u]
                   /\ \A i \in 1..Len(priorityQueues) :
                        u \in HeapSet(priorityQueues, i) <=> u \in HeapSet(priorityQueues', i)]_vars

\* C19 witness: a task has just failed and the dispatch round that followed has
\* started the task that waited for its slot
C19_Witness ==
  /\ last[1] = "complete" /\ last[3] = "fail"
  /\ StatusOf(last[2]) = TaskStatus.Failed
  /\ Len(dispatched) = 1
  /\ StatusOf(dispatched[1].task) = TaskStatus.Running
  /\ runningCounts[1] + runningCounts[2] = maxConcurrency

\* the event sequences a task can have
Lifecycles ==
  {<<"enqueue">>, <<"enqueue", "start">>, <<"enqueue", "cancel">>,
   <<"enqueue", "start", "success", "complete">>,
   <<"enqueue", "start", "fail", "complete">>}

\* C20: a task's events come in the order enqueue, start, one of success or fail,
\* complete, each at most once; a task with a cancel event has no start, success,
\* fail or complete event, and a task with a start event has no cancel event; and
\* only a next event is added to the events a task has.
C20_EventOrder ==
  [][/\ \A t \in 1..Len(tasks') : tasks'[t].events \in Lifecycles
     /\ \A t \in TaskIds :
          /\ Len(tasks'[t].events) >= Len(tasks[t].events)
          /\ SubSeq(tasks'[t].events, 1, Len(tasks[t].events)) = tasks[t].events]_vars

\* C20 witness: one task has gone through its whole lifecycle and failed, another
\* one was cancelled
C20_Witness ==
  /\ \E t \in TaskIds : tasks[t].events = <<"enqueue", "start", "fail", "complete">>
  /\ \E t \in TaskIds : tasks[t].events = <<"enqueue", "cancel">>

C22_QuotaWithinPending ==
  (last[1] = "getState" /\ calcConcurrency = <<>>) =>
    \A i \in 1..Len(last[2]) : last[2][i].concurrency <= last[2][i].pending

\* ceil(0.6 * max)
SixtyPercent(max) == (6 * max + 9) \div 10

\* C23: under the default calcConcurrency, whenever the first tier's pending count
\* is at least ceil(0.6 * max), the quota returned for the first tier is at least
\* ceil(0.6 * max).
C23_FirstTierSixtyPercent ==
  (last[1] = "getState" /\ calcConcurrency = <<>>
     /\ last[2][1].pending >= SixtyPercent(maxConcurrency))
  => last[2][1].concurrency >= SixtyPercent(maxConcurrency)

\* the first tier whose threshold is >= p, the last tier if there is none
ExpectedTier(p) ==
  LET fits == {i \in 1..Len(thresholds) : thresholds[i] >= p}
  IN IF fits = {} THEN Len(thresholds)
     ELSE CHOOSE i \in fits : \A j \in fits : i <= j

Ascending(th) == \A i, j \in 1..Len(th) : i < j => th[i] <= th[j]

\* C24: the tiers' thresholds are in ascending order whatever order they were
\* configured in; add() puts the new task in the first tier whose threshold is >=
\* its basePriority, or in the last tier if no threshold is (it waits in that
\* tier's heap and in no other, or was taken from that tier's heap by the dispatch
\* round of the same call); add() without a priority gives the task basePriority =
\* largest threshold + 1, so it is placed in the last tier.
C24_PlacedAtSubmission ==
  [][(last'[1] = "add" /\ last'[3] = "ok") =>
       LET id == Len(tasks')
           tier == ExpectedTier(tasks'[id].basePriority)
       IN /\ Ascending(thresholds)
          /\ id = Len(tasks) + 1
          /\ \/ /\ tasks'[id].status = TaskStatus.Pending
                /\ \A i \in 1..Len(thresholds) : id \in HeapSet(priorityQueues', i) <=> i = tier
             \/ /\ tasks'[id].status = TaskStatus.Running
                /\ tasks'[id].from = tier
                /\ ~InHeaps(priorityQueues', id)
          /\ Add(FALSE, 0) =>
               /\ \A i \in 1..Len(thresholds) : tasks'[id].basePriority = thresholds[i] + 1
                                                  => \A j \in 1..Len(thresholds) : thresholds[j] <= thresholds[i]
               /\ \E i \in 1..Len(thresholds) : tasks'[id].basePriority = thresholds[i] + 1
               /\ tier = Len(thresholds)]_vars

C24_Witness ==
  /\ Len(thresholds) = 3
  /\ last[1] = "add" /\ last[3] = "ok"
  /\ tasks[last[2]].basePriority = thresholds[3] + 1
  /\ last[2] \in HeapSet(priorityQueues, 3)
  /\ \E t \in TaskIds : tasks[t].basePriority = 3 /\ t \in HeapSet(priorityQueues, 2)

\* C25: when calcConcurrency returns 0 for a tier in every state, no dispatch
\* round takes a task from that tier's heap, and a dispatch round that has ended
\* leaves no tier with a positive quota with a waiting task and a running counter
\* below its quota while the global maximum is not reached.
C25_ZeroQuotaTierNeverStarts ==
  [][/\ \A k \in 1..Len(dispatched') : calcConcurrency[dispatched'[k].from] > 0
     /\ (/\ \/ last'[1] = "add" /\ last'[3] = "ok"
            \/ last'[1] = "complete"
            \/ last'[1] = "resume" /\ isPaused
         /\ ~isPaused' /\ ~hung')
        => \/ RunningTaskCount(runningCounts') >= maxConcurrency
           \/ \A i \in 1..Len(thresholds) :
                (calcConcurrency[i] > 0 /\ Len(priorityQueues'[i]) > 0)
                => runningCounts'[i] >= calcConcurrency[i]]_vars

InvalidConfiguration == maxConcurrency <= 0 \/ thresholds = <<>>

\* C26: a scheduler with an invalid configuration (a maximum concurrency that is
\* not positive, no thresholds) does not exist, its construction having thrown: no
\* add() on it succeeds and it holds no task.
C26_InvalidConfigurationRejected ==
  InvalidConfiguration => ~(last[1] = "add" /\ last[3] = "ok") /\ tasks = <<>>

\* C27: every run of the aging sweep ends, whatever the heaps hold, so every
\* dispatch round that runs it ends: the scheduler is never inside a sweep that
\* does not return.
C27_SweepTerminates == ~hung

\* C28: a dispatch round increments the counter of the tier whose heap the task was
\* taken from, and the completion of a task decrements the counter of that same
\* tier (the other changes of the counters in that step are the tasks the dispatch
\* round after the completion starts).
C28_SourceTierCharged ==
  [][/\ \A k \in 1..Len(dispatched') : dispatched'[k].queueIndex = dispatched'[k].from
     /\ \A t \in TaskIds :
          (last'[1] = "complete" /\ last'[2] = t) =>
            \A i \in 1..Len(thresholds) :
              runningCounts'[i] = runningCounts[i] - (IF i = tasks[t].from THEN 1 ELSE 0)
                                    + ChargedTo(dispatched', i)]_vars

\* C29: every tier's running counter is >= 0 in every reachable state.
C29_RunningCountsNotNegative == \A i \in 1..Len(runningCounts) : runningCounts[i] >= 0

\* C30: when add, cancel, clear, resume, the completion of a task or the expiry
\* sweep has finished and the scheduler is not paused, the global maximum is
\* reached or no tier has a waiting task and a running counter below its quota.
C30_FreedCapacityReused ==
  (/\ \/ last[1] = "add" /\ last[3] = "ok"
      \/ last[1] \in {"cancel", "clear", "resume", "complete", "expire"}
   /\ ~isPaused /\ ~hung)
  => ~Startable

\* a task waits in the heap of tier i after the step
WaitsIn(i) == HeapSet(priorityQueues', i)

\* C31: whenever a dispatch round takes a task from a tier's heap, no task left
\* waiting in that heap has, at that moment, a lower effective priority, or the
\* same effective priority and an earlier addedAt.
C31_ExtractsCurrentMinimum ==
  [][\A k \in 1..Len(dispatched') :
       LET d == dispatched'[k]
       IN \A u \in WaitsIn(d.from) :
            LET e == CalcEffectivePriority(tasks'[u])
            IN \/ d.effective < e
               \/ d.effective = e /\ tasks'[d.task].addedAt <= tasks'[u].addedAt]_vars

\* C32: among the tasks waiting in one tier's heap with the same effective priority,
\* a dispatch round takes the one submitted first (the lowest task id), also when
\* they were added at the same clock reading.
C32_FifoAmongEqual ==
  [][\A k \in 1..Len(dispatched') :
       LET d == dispatched'[k]
       IN \A u \in WaitsIn(d.from) :
            CalcEffectivePriority(tasks'[u]) = d.effective => d.task < u]_vars

\* C33: the aging sweep runs every priorityCheckInterval whatever the dispatch
\* activity (paused, global maximum reached, nothing added or completed): from some
\* point on the last sweep is never older than priorityCheckInterval, or a sweep
\* is running.
C33_SweepIsPeriodic == <>[](now - lastPriorityCheck <= priorityCheckInterval \/ hung)

\* ceil(a / b) for b > 0
CeilDiv(a, b) == (a + b - 1) \div b

\* the two-phase value for tier i (counted from 1) of a state as getState() reports it
TwoPhase(i, queues, max) ==
  LET totalTiers == Len(queues)
      totalPending == SumSeq([j \in 1..totalTiers |-> queues[j].pending])
      tierPending == queues[i].pending
      share == Min(CeilDiv(max * (totalTiers - i + 1) * tierPending,
                           totalTiers * totalPending), tierPending)
  IN IF totalPending = 0 \/ tierPending = 0 THEN 0
     ELSE IF i = 1 /\ share < tierPending THEN Min(SixtyPercent(max), tierPending)
     ELSE share

\* C34: for every tier and every state, the quota the default calcConcurrency
\* returns, as getState() reports it, is the two-phase value: 0 when no task is
\* pending at all or in that tier, else the ceiling of the weighted share capped by
\* the tier's pending count, raised for the first tier to min(ceil(0.6 * max),
\* pending) when the share is below its pending count.
C34_TwoPhaseValue ==
  (last[1] = "getState" /\ calcConcurrency = <<>>) =>
    \A i \in 1..Len(last[2]) : last[2][i].concurrency = TwoPhase(i, last[2], maxConcurrency)

\* how many times task t occurs in the tier heaps
Occurrences(t) ==
  SumSeq([i \in 1..Len(priorityQueues) |->
            Cardinality({k \in 1..Len(priorityQueues[i]) : priorityQueues[i][k] = t})])

\* C35: between operations every Pending task is in exactly one tier heap exactly
\* once and the heaps hold Pending tasks only, so the pending count of getState()
\* is the number of Pending tasks and the sum of the per-tier pending counts.
C35_PendingExactlyOnce ==
  /\ \A t \in TaskIds : Occurrences(t) = IF StatusOf(t) = TaskStatus.Pending THEN 1 ELSE 0
  /\ \A i \in 1..Len(priorityQueues) : HeapSet(priorityQueues, i) \subseteq TaskIds
  /\ GetState(priorityQueues, runningCounts).pending = Cardinality(PendingTasks)
  /\ GetState(priorityQueues, runningCounts).pending
       = SumSeq([i \in 1..Len(priorityQueues) |->
                   GetState(priorityQueues, runningCounts).queues[i].pending])

\* C35 witness: an aging sweep has run to its end, one task waits and another one
\* has left the heaps
C35_Witness ==
  /\ lastPriorityCheck > 0 /\ ~hung
  /\ PendingTasks # {}
  /\ \E t \in TaskIds : StatusOf(t) # TaskStatus.Pending

\* C36: (baseDecay >= 0, the decay curve non-negative and non-decreasing) every
\* Pending task has an effective priority <= the threshold of the tier whose heap
\* holds it, or is held by the last tier.
C36_WithinTierThreshold ==
  \A i \in 1..Len(priorityQueues) : \A t \in HeapSet(priorityQueues, i) :
    \/ CalcEffectivePriority(tasks[t]) <= thresholds[i]
    \/ i = Len(thresholds)

\* C36 witness: a task waits in the first of three tiers after its priority has
\* decayed, another one waits in the last tier above the last threshold
C36_Witness ==
  /\ Len(thresholds) = 3
  /\ \E t \in HeapSet(priorityQueues, 1) :
       CalcEffectivePriority(tasks[t]) < tasks[t].basePriority
  /\ \E t \in HeapSet(priorityQueues, 3) : CalcEffectivePriority(tasks[t]) > thresholds[3]

\* C37: the handle of a task that becomes Cancelled (by cancel, clear, the expiry
\* sweep or dispose) is pending then and in every later state: the task stays
\* Cancelled, its work is never called and its handle is neither fulfilled nor
\* rejected.
C37_CancelledHandleNeverSettles ==
  [][\A t \in 1..Len(tasks') :
       /\ tasks'[t].status = TaskStatus.Cancelled
            => tasks'[t].handle = "pending" /\ tasks'[t].work = "idle"
       /\ (t \in TaskIds /\ tasks[t].status = TaskStatus.Cancelled)
            => tasks'[t].status = TaskStatus.Cancelled]_vars

\* C37 witness: after a task was cancelled the clock went on and another task
\* completed, the cancelled task's handle is still pending
C37_Witness ==
  /\ last[1] = "complete"
  /\ \E t \in TaskIds :
       /\ StatusOf(t) = TaskStatus.Cancelled
       /\ tasks[t].handle = "pending"
       /\ last[2] > t
  /\ now > 0

\* no handler was called in the step
NothingDelivered ==
  \A t \in 1..Len(tasks') :
    delivered'[t] = IF t \in TaskIds THEN delivered[t] ELSE <<>>

\* C38 as stated: no handler is called during or after dispose(): in a step that
\* ends with the scheduler disposed no event is delivered, neither the cancel
\* events of the tasks dispose() cancels nor the success, fail and complete events
\* of the tasks that were Running at dispose() and finish later.
C38_NoCallbackAfterDispose == [][isDisposed' => NothingDelivered]_vars

\* C38 amended: dispose() calls no handler and leaves none registered; after it no
\* handler is called as long as none is registered, and none is registered unless
\* on() is called on the disposed scheduler.
C38_NoCallbackOfEarlierHandlers ==
  [][/\ last'[1] = "dispose" => (handlers' = {} /\ NothingDelivered)
     /\ (isDisposed' /\ handlers' = {}) => NothingDelivered
     /\ (isDisposed /\ handlers = {} /\ last'[1] # "on") => handlers' = {}]_vars

\* C38 witness: a handler for complete was registered and called for one task;
\* after dispose() the other task, Running at dispose(), has completed and no
\* handler was called for it
C38_Witness ==
  /\ isDisposed /\ handlers = {}
  /\ last[1] = "complete"
  /\ delivered[last[2]] = <<>>
  /\ \E u \in TaskIds : \E k \in 1..Len(delivered[u]) : delivered[u][k] = "complete"

\* C39: cancel(id), whether or not it finds the task, changes the target task
\* only: every other task is as it was, every heap holds the tasks it held (less
\* the target), the running counters, the paused and disposed flags, the clock
\* reading of the last aging sweep and the expiry timer are unchanged, and no task
\* is started.
C39_CancelFrame ==
  [][last'[1] = "cancel" =>
       LET t == last'[2]
       IN /\ Len(tasks') = Len(tasks)
          /\ \A u \in TaskIds \ {t} : tasks'[u] = tasks[u]
          /\ \A i \in 1..Len(priorityQueues) :
               /\ HeapSet(priorityQueues', i) = HeapSet(priorityQueues, i) \ {t}
               /\ Len(priorityQueues'[i]) = Cardinality(HeapSet(priorityQueues', i))
          /\ runningCounts' = runningCounts
          /\ isPaused' = isPaused /\ isDisposed' = isDisposed
          /\ lastPriorityCheck' = lastPriorityCheck /\ cleanupTimer' = cleanupTimer
          /\ dispatched' = <<>>
          /\ \A u \in TaskIds : tasks'[u].status = TaskStatus.Running
                                  => tasks[u].status = TaskStatus.Running
          /\ last'[3] = "false" => tasks' = tasks]_vars

\* C39 witness: cancel() has returned true while the scheduler is not paused, a
\* task runs and another task waits that a dispatch round would start
C39_Witness ==
  /\ last[1] = "cancel" /\ last[3] = "true"
  /\ ~isPaused
  /\ RunningTasks # {}
  /\ Startable

\* C40: for a comparator that does not change over time, on any sequence of
\* enqueue and dequeue: enqueue adds the item and nothing else (size + 1); dequeue
\* on a queue that holds items returns an item that is minimal under the comparator
\* among those held and removes exactly that item (size - 1); dequeue on an empty
\* queue returns undefined and leaves it empty; no item is held twice, so size is
\* the number of items enqueued and not yet dequeued.
C40_QueueContract ==
  [][LET h == priorityQueues[1]
         g == priorityQueues'[1]
         held == HeapSet(priorityQueues, 1)
         kept == HeapSet(priorityQueues', 1)
     IN /\ Len(g) = Cardinality(kept)
        /\ last'[1] = "enqueue" => (kept = held \cup {last'[2]} /\ Len(g) = Len(h) + 1)
        /\ (last'[1] = "dequeue" /\ h # <<>>) =>
             /\ last'[3] = "item" /\ last'[2] \in held
             /\ \A u \in held : Compare(tasks, last'[2], u) <= 0
             /\ kept = held \ {last'[2]}
             /\ Len(g) = Len(h) - 1
        /\ (last'[1] = "dequeue" /\ h = <<>>) => (last'[3] = "undefined" /\ g = <<>>)]_vars

\* C40 witness: dequeue has returned an item that was not the first one enqueued
\* and is strictly below one of the items left, and three items are left
C40_Witness ==
  /\ last[1] = "dequeue" /\ last[3] = "item" /\ last[2] > 1
  /\ Len(priorityQueues[1]) = 3
  /\ \E u \in HeapSet(priorityQueues, 1) : Compare(tasks, last[2], u) < 0
  /\ \E u \in HeapSet(priorityQueues, 1) : Compare(tasks, last[2], u) = 0

=============================================================================
